---- MODULE Spec2Model ----
(***************************************************************************)
(* InpaintProcessor.process (src/processor.js): iterative neighbour-       *)
(* averaging fill of the pixels a mask marks as damaged.                   *)
(*                                                                         *)
(* Buffers are byte sequences, four bytes (r, g, b, a) per pixel, as       *)
(* ImageData.data is; the byte at index j of the code is element j + 1.    *)
(* process has no await inside: a call runs to its end in one step.  What  *)
(* its loops did on the way (which pass                                    *)
(* solved which record, from which neighbours) is kept beside its result.  *)
(***************************************************************************)
EXTENDS Integers, Sequences, FiniteSets, TLC

\* ---- bounds of the model ------------------------------------------------
MaxWidth == 4
MaxHeight == 3
MaxPixels == 12
MaxSeed == 0
MaxCalls == 2
MaxStrip == 502
MaxMismatch == 6
MaxFullMask == 9
MaxPermuted == 3
MaxOrderPixels == 9
MaxEvents == 6
MaxClicks == 19

\* ---- program constants --------------------------------------------------
SafetyCap == 500
Opaque == 255
HistoryLimit == 20

VARIABLES
    width, height,      \* imageData.width, imageData.height
    maskWidth, maskHeight, \* maskData.width, maskData.height
    data,               \* imageData.data
    mask,               \* maskData.data
    isProcessing,       \* this.isProcessing
    calls,              \* number of calls of process made
    \* what the last call left in its locals
    damagedPixels,      \* the records {x, y, i, solved}
    maxIterations, remaining,
    solvedThisPass,     \* indices (into damagedPixels) of the records pushed
                        \* in the last pass
    \* what the last call did
    outcome,            \* how it ended
    exits,              \* per call made, the way its pass loop was left
    passes,             \* number of passes it ran
    history,            \* per pass, the records it solved and the value of
                        \* remaining after it
    solvedAt,           \* per record, the pass that solved it (0: none)
    contrib,            \* per record, the byte indices of the neighbours
                        \* summed for it when it was solved
    data0, mask0,       \* the buffers when it started
    app,                \* the App object (src/app.js): its fields, the two
                        \* canvases, the two buttons and the pending timers
    account             \* what the last timer callback found and did

vars == <<width, height, maskWidth, maskHeight, data, mask, isProcessing, calls,
          damagedPixels, maxIterations, remaining, solvedThisPass, outcome,
          exits, passes, history, solvedAt, contrib, data0, mask0,
          app, account>>
\* the state of process and of its last call, but for isProcessing
callVars == <<width, height, maskWidth, maskHeight, data, mask, calls,
              damagedPixels, maxIterations, remaining, solvedThisPass, outcome,
              exits, passes, history, solvedAt, contrib, data0, mask0>>

\* ---- helpers --------------------------------------------------------------
Min(a, b) == IF a < b THEN a ELSE b
Max(a, b) == IF a > b THEN a ELSE b
CeilHalf(n) == (n + 1) \div 2

\* (y * width + x) * 4
BufferIndex(x, y, w) == (y * w + x) * 4

\* buf[j]
Byte(buf, j) == buf[j + 1]

\* mask[j] > 0; a read past the end of a typed array gives undefined, and
\* undefined > 0 is false
IsMasked(m, j) == j >= 0 /\ j < Len(m) /\ Byte(m, j) > 0

\* ToUint8Clamped with the fraction dropped, as a store into a Uint8Array does
ToUint8Truncated(sum, count) ==
    LET q == sum \div count
    IN  IF q > 255 THEN 255 ELSE IF q < 0 THEN 0 ELSE q

\* the conversion of a store into a Uint8ClampedArray, for the quotient
\* sum / count of two non-negative integers: round to nearest, ties to even,
\* clamped to 0..255
ToUint8Clamped(sum, count) ==
    LET q == sum \div count
        rem == sum % count
        rounded == IF 2 * rem < count THEN q
                   ELSE IF 2 * rem > count THEN q + 1
                   ELSE IF q % 2 = 0 THEN q ELSE q + 1
    IN  Min(Opaque, Max(0, rounded))

\* ScanDamage making a record of every pixel
ScanDamageAll(m, w, h) ==
    [q \in 1..(w * h) |->
        [x |-> (q - 1) % w, y |-> (q - 1) \div w,
         i |-> BufferIndex((q - 1) % w, (q - 1) \div w, w), solved |-> FALSE]]

\* the records pushed by the scan loop, row-major
ScanDamage(m, w, h) ==
    LET rec(q) == [x |-> q % w, y |-> q \div w, i |-> BufferIndex(q % w, q \div w, w),
                   solved |-> FALSE]
        all == [q \in 1..(w * h) |-> rec(q - 1)]
        damaged(r) == IsMasked(m, r.i + 3)
    IN  SelectSeq(all, damaged)

\* InBounds testing the pixel number instead of the two coordinates
InBoundsByIndex(nx, ny, w, h) == ny * w + nx >= 0 /\ ny * w + nx < w * h

\* nx >= 0 && nx < width && ny >= 0 && ny < height
InBounds(nx, ny, w, h) == nx >= 0 /\ nx < w /\ ny >= 0 /\ ny < h

\* Offsets without the diagonal neighbours
OffsetsCross == {<<0, -1>>, <<-1, 0>>, <<1, 0>>, <<0, 1>>}

\* the (dx, dy) visited by the 8-neighbour loop
Offsets == {d \in (-1..1) \X (-1..1) : d # <<0, 0>>}

\* Contributors with the test on isMasked inverted
ContributorsFlipped(x, y, m, w, h) ==
    {BufferIndex(x + d[1], y + d[2], w) : d \in
        {e \in Offsets : /\ x + e[1] >= 0 /\ x + e[1] < w
                         /\ y + e[2] >= 0 /\ y + e[2] < h
                         /\ IsMasked(m, BufferIndex(x + e[1], y + e[2], w) + 3)}}

\* byte indices ni of the neighbours of (x, y) whose colour is added
Contributors(x, y, m, w, h) ==
    {BufferIndex(x + d[1], y + d[2], w) : d \in
        {e \in Offsets : /\ InBounds(x + e[1], y + e[2], w, h)
                         /\ ~IsMasked(m, BufferIndex(x + e[1], y + e[2], w) + 3)}}

RECURSIVE SumAt(_, _, _)
SumAt(d, S, c) ==
    IF S = {} THEN 0
    ELSE LET ni == CHOOSE n \in S : TRUE
         IN  Byte(d, ni + c) + SumAt(d, S \ {ni}, c)

\* ---- inputs ---------------------------------------------------------------
Image(s, w, h) ==
    [n \in 1..(4 * w * h) |-> LET j == n - 1 IN
        IF j % 4 = 3
        THEN (IF ((j \div 4) + s + 1) % 3 = 0 THEN 128 ELSE Opaque)
        ELSE (93 + s * 53 + j * 37 + (j \div 4) * (j \div 4) * 11
                 + (s + 1) * ((j * j) % 9) * 5) % 256]

\* a mask canvas on which the pixels of D carry the brush colour
\* rgba(255, 50, 50, 0.8)
MaskOf(D, w, h) ==
    [n \in 1..(4 * w * h) |-> LET j == n - 1 IN
        IF (j \div 4) \in D
        THEN (CASE j % 4 = 0 -> 255 [] j % 4 = 3 -> 204 [] OTHER -> 50)
        ELSE 0]

\* the mask has the image's dimensions, or (for images of at most MaxMismatch
\* pixels) one more row or one column less
MaskDims(w, h) ==
    IF w * h > MaxMismatch THEN {<<w, h>>}
    ELSE {<<w, h>>, <<w, h + 1>>} \cup (IF w > 1 THEN {<<w - 1, h>>} ELSE {})

\* ---- the app's canvases (src/app.js) ----------------------------------------
\* an ImageData, and the bitmap of a canvas: width, height and bytes
Bitmap(w, h, d) == [width |-> w, height |-> h, data |-> d]
\* a canvas as the page makes it or as setting its width leaves it
Blank(w, h) == Bitmap(w, h, [n \in 1..(4 * w * h) |-> 0])
NoImageData == Bitmap(0, 0, <<>>)
\* byte c of the pixel (x, y) of b; transparent black outside b
PixelByte(b, x, y, c) ==
    IF x < b.width /\ y < b.height THEN b.data[BufferIndex(x, y, b.width) + c + 1]
    ELSE 0
\* ctx.getImageData(0, 0, w, h)
GetImageData(canvas, w, h) ==
    Bitmap(w, h, [n \in 1..(4 * w * h) |->
        PixelByte(canvas, ((n - 1) \div 4) % w, ((n - 1) \div 4) \div w, (n - 1) % 4)])
\* ctx.putImageData(img, 0, 0): the part of img that falls on the canvas
PutImageData(canvas, img) ==
    [canvas EXCEPT !.data = [n \in 1..Len(canvas.data) |->
        LET x == ((n - 1) \div 4) % canvas.width
            y == ((n - 1) \div 4) \div canvas.width
        IN  IF x < img.width /\ y < img.height
            THEN PixelByte(img, x, y, (n - 1) % 4)
            ELSE canvas.data[n]]]
\* ctx.clearRect(0, 0, w, h)
ClearRect(canvas, w, h) ==
    [canvas EXCEPT !.data = [n \in 1..Len(canvas.data) |->
        LET x == ((n - 1) \div 4) % canvas.width
            y == ((n - 1) \div 4) \div canvas.width
        IN  IF x < w /\ y < h THEN 0 ELSE canvas.data[n]]]
\* the pictures a file can hold: picture k is Image(k - 1, ..) in these sizes
PictureDims == <<(<<2, 1>>), (<<1, 2>>)>>
Picture(k) ==
    Bitmap(PictureDims[k][1], PictureDims[k][2],
           Image(k - 1, PictureDims[k][1], PictureDims[k][2]))
\* lines 365-370: the stroke from pixel a to pixel b in the brush colour
\* rgba(255, 50, 50, 0.8); on these canvases the brush covers a and b
StrokeLine(canvas, a, b) ==
    [canvas EXCEPT !.data = [n \in 1..Len(canvas.data) |->
        IF (n - 1) \div 4 \in {a, b}
        THEN (CASE (n - 1) % 4 = 0 -> 255 [] (n - 1) % 4 = 3 -> 204 [] OTHER -> 50)
        ELSE canvas.data[n]]]

\* lines 7-61: the App after its constructor, on the page as it is served:
\* no image, both canvases blank (one pixel stands for the default canvas),
\* Remove and Undo disabled until an image is loaded (lines 187, 381)
AppStart ==
    [image |-> 0,
     mainCanvas |-> Blank(1, 1), maskCanvas |-> Blank(1, 1),
     originalImageData |-> NoImageData,
     history |-> <<>>,
     isDragging |-> FALSE,
     path |-> -1,            \* the last point of maskCtx's path, -1: empty
     removeBtnDisabled |-> TRUE, undoBtnDisabled |-> TRUE,
     timers |-> <<>>,        \* the callbacks setTimeout holds, oldest first
     events |-> 0]
NoAccount ==
    [last |-> "none", shown |-> NoImageData, painted |-> NoImageData,
     imgData |-> NoImageData, maskData |-> NoImageData]

\* lines 7-9: the processor after its constructor, no call made
FreshProcessor ==
    /\ isProcessing = FALSE
    /\ calls = 0
    /\ damagedPixels = <<>>
    /\ maxIterations = 0
    /\ remaining = 0
    /\ solvedThisPass = <<>>
    /\ outcome = "none"
    /\ exits = <<>>
    /\ passes = 0
    /\ history = <<>>
    /\ solvedAt = <<>>
    /\ contrib = <<>>
    /\ data0 = data
    /\ mask0 = mask
Fresh ==
    /\ app = AppStart
    /\ account = NoAccount
    /\ FreshProcessor

\* the sets of damaged pixels tried on a w x h image whose mask covers its
\* first n pixels: every set for an image of at most MaxFullMask pixels; for
\* a larger one no pixel, every filled rectangle, and all pixels but one
DamageSets(w, h, n) ==
    IF w * h <= MaxFullMask THEN SUBSET (0..(n - 1))
    ELSE {{}} \cup {(0..(n - 1)) \ {q} : q \in 0..(n - 1)}
         \cup {{q \in 0..(n - 1) : /\ q % w >= x0 /\ q % w <= x1
                                    /\ q \div w >= y0 /\ q \div w <= y1} :
                  x0 \in 0..(w - 1), x1 \in 0..(w - 1),
                  y0 \in 0..(h - 1), y1 \in 0..(h - 1)}

InitSmall ==
    /\ \E w \in 1..MaxWidth, h \in 1..MaxHeight :
          /\ w * h <= MaxPixels
          /\ width = w
          /\ height = h
          /\ \E md \in MaskDims(w, h) :
                /\ maskWidth = md[1]
                /\ maskHeight = md[2]
                /\ \E D \in DamageSets(w, h, Min(w * h, md[1] * md[2])) :
                      mask = MaskOf(D, md[1], md[2])
          /\ \E s \in 0..MaxSeed : data = Image(s, w, h)
    /\ Fresh

\* a one-row image whose only undamaged pixel is the leftmost one
InitStrip ==
    /\ width = MaxStrip
    /\ height = 1
    /\ maskWidth = MaxStrip
    /\ maskHeight = 1
    /\ data = Image(0, MaxStrip, 1)
    /\ mask = MaskOf(1..(MaxStrip - 1), MaxStrip, 1)
    /\ Fresh

Init == InitSmall \/ InitStrip

\* ---- process --------------------------------------------------------------
\* lines 78-83: the stores into data for the record at byte index i
Fill(d, i, S) ==
    LET count == Cardinality(S)
    IN  [d EXCEPT ![i + 1] = ToUint8Clamped(SumAt(d, S, 0), count),
                  ![i + 2] = ToUint8Clamped(SumAt(d, S, 1), count),
                  ![i + 3] = ToUint8Clamped(SumAt(d, S, 2), count),
                  ![i + 4] = Opaque]

\* SolveRecord storing the alpha before the test on count
SolveRecordAlphaFirst(st, n, w, h) ==
    LET p == st.recs[n]
        S == Contributors(p.x, p.y, st.mask, w, h)
    IN  IF p.solved THEN st
        ELSE IF S = {} THEN [st EXCEPT !.data[p.i + 4] = Opaque]
        ELSE [st EXCEPT !.data = Fill(st.data, p.i, S),
                        !.recs[n].solved = TRUE,
                        !.solved = Append(st.solved, n),
                        !.contrib[n] = S,
                        !.solvedAt[n] = st.passes]

\* SolveRecord clearing the mask alpha as soon as the record is solved
SolveRecordEager(st, n, w, h) ==
    LET p == st.recs[n]
        S == Contributors(p.x, p.y, st.mask, w, h)
    IN  IF p.solved \/ S = {} THEN st
        ELSE [st EXCEPT !.data = Fill(st.data, p.i, S),
                        !.mask[p.i + 4] = 0,
                        !.recs[n].solved = TRUE,
                        !.solved = Append(st.solved, n),
                        !.contrib[n] = S,
                        !.solvedAt[n] = st.passes]

\* SolveRecord without the test of p.solved (line 50)
SolveRecordNoSkip(st, n, w, h) ==
    LET p == st.recs[n]
        S == Contributors(p.x, p.y, st.mask, w, h)
    IN  IF S = {} THEN st
        ELSE [st EXCEPT !.data = Fill(st.data, p.i, S),
                        !.recs[n].solved = TRUE,
                        !.solved = Append(st.solved, n),
                        !.contrib[n] = S,
                        !.solvedAt[n] = st.passes]

\* lines 49-87: the body of the for-k loop for the record at index n (1-based).
\* st holds what the loops read and write: data, mask, recs (damagedPixels),
\* solved (solvedThisPass), remaining, maxIterations, and the account of the
\* call: passes, history, solvedAt, contrib, exit
SolveRecord(st, n, w, h) ==
    LET p == st.recs[n]
        S == Contributors(p.x, p.y, st.mask, w, h)
    IN  IF p.solved \/ S = {} THEN st
        ELSE [st EXCEPT !.data = Fill(st.data, p.i, S),
                        !.recs[n].solved = TRUE,
                        !.solved = Append(st.solved, n),
                        !.contrib[n] = S,
                        !.solvedAt[n] = st.passes]

\* lines 48-88: the for-k loop over the records lo..hi, in index order (the
\* range is halved only to keep the evaluation shallow; the records are still
\* visited first to last, each on the state the previous one left)
RECURSIVE SolveRange(_, _, _, _, _)
SolveRange(st, lo, hi, w, h) ==
    IF lo > Len(st.recs) \/ lo > hi THEN st
    ELSE IF lo = hi THEN SolveRecord(st, lo, w, h)
    ELSE LET mid == (lo + hi) \div 2
             left == SolveRange(st, lo, mid, w, h)
         IN  SolveRange(left, mid + 1, hi, w, h)

\* ClearSolved leaving the mask as it is
ClearSolvedNoop(m, recs, solved) == m

\* ClearSolved storing 0 at sp.i instead of sp.i + 3
ClearSolvedWrongChannel(m, recs, solved) ==
    LET cleared == {recs[solved[n]].i : n \in 1..Len(solved)}
    IN  [j \in 1..Len(m) |-> IF (j - 1) \in cleared THEN 0 ELSE m[j]]

\* lines 91-92: the mask after the commit loop
ClearSolved(m, recs, solved) ==
    LET cleared == {recs[solved[n]].i + 3 : n \in 1..Len(solved)}
    IN  [j \in 1..Len(m) |-> IF (j - 1) \in cleared THEN 0 ELSE m[j]]

\* RunPass taking one off remaining per pass that solved something
RunPassDecrementOnce(st, w, h) ==
    LET swept == SolveRange([st EXCEPT !.solved = <<>>, !.passes = @ + 1],
                            1, Len(st.recs), w, h)
        left == swept.remaining - (IF Len(swept.solved) > 0 THEN 1 ELSE 0)
    IN  [swept EXCEPT !.mask = ClearSolved(swept.mask, swept.recs, swept.solved),
                      !.remaining = left,
                      !.history = Append(@, [solved |-> Len(swept.solved),
                                             remaining |-> left,
                                             who |-> swept.solved])]

\* lines 46-94: one pass, and the commit loop after it; history keeps, per
\* pass, how many records it solved, which ones, and remaining after it
RunPass(st, w, h) ==
    LET swept == SolveRange([st EXCEPT !.solved = <<>>, !.passes = @ + 1],
                            1, Len(st.recs), w, h)
        left == swept.remaining - Len(swept.solved)
    IN  [swept EXCEPT !.mask = ClearSolved(swept.mask, swept.recs, swept.solved),
                      !.remaining = left,
                      !.history = Append(@, [solved |-> Len(swept.solved),
                                             remaining |-> left,
                                             who |-> swept.solved])]

\* CapAllows letting one more pass through
CapAllowsOneMore(m) == m >= 0

\* line 45: maxIterations-- > 0
CapAllows(m) == m > 0

\* IsStuck never breaking out of the loop
IsStuckNever(solved) == FALSE

\* line 96: solvedThisPass.length === 0
IsStuck(solved) == Len(solved) = 0

\* lines 45-96: the loop condition and, when it holds, the loop body
LoopStep(st, w, h) ==
    IF st.remaining > 0
    THEN IF CapAllows(st.maxIterations)
         THEN LET after == RunPass([st EXCEPT !.maxIterations = @ - 1], w, h)
              IN  IF IsStuck(after.solved)
                  THEN [after EXCEPT !.exit = "stuck"]
                  ELSE after
         ELSE [st EXCEPT !.maxIterations = @ - 1, !.exit = "cap"]
    ELSE [st EXCEPT !.exit = "resolved"]

\* lines 45-97: the while loop, for at most n tests of its condition (the
\* count is halved only to keep the evaluation shallow; the steps are taken
\* one after the other until the loop is left)
RECURSIVE WhileLoop(_, _, _, _)
WhileLoop(st, n, w, h) ==
    IF st.exit # "none" \/ n <= 0 THEN st
    ELSE IF n = 1 THEN LoopStep(st, w, h)
    ELSE LET first == WhileLoop(st, n \div 2, w, h)
         IN  WhileLoop(first, n - n \div 2, w, h)

\* more tests of the loop condition than a call can make
LoopFuel == SafetyCap + 2

\* lines 17-42: the scan and the loop state before the first pass
Entry(d, m, w, h) ==
    LET recs == ScanDamage(m, w, h)
    IN  [data |-> d, mask |-> m, recs |-> recs, solved |-> <<>>,
         remaining |-> Len(recs), maxIterations |-> SafetyCap,
         passes |-> 0, history |-> <<>>,
         solvedAt |-> [n \in 1..Len(recs) |-> 0],
         contrib |-> [n \in 1..Len(recs) |-> {}],
         exit |-> "none"]

\* lines 17-102: a call of process on the two buffers
Process ==
    /\ calls < MaxCalls
    /\ \E end \in {WhileLoop(Entry(data, mask, width, height), LoopFuel,
                              width, height)} :
           /\ data' = end.data
           /\ mask' = end.mask
           /\ damagedPixels' = end.recs
           /\ solvedThisPass' = end.solved
           /\ remaining' = end.remaining
           /\ maxIterations' = end.maxIterations
           /\ passes' = end.passes
           /\ history' = end.history
           /\ solvedAt' = end.solvedAt
           /\ contrib' = end.contrib
           /\ exits' = Append(exits, end.exit)
    /\ isProcessing' = FALSE
    /\ outcome' = "returned"
    /\ calls' = calls + 1
    /\ data0' = data
    /\ mask0' = mask
    /\ UNCHANGED <<width, height, maskWidth, maskHeight, app, account>>

Next == Process

Spec == Init /\ [][Next]_vars

\* ---- the app (src/app.js) -----------------------------------------------------
\* The handlers below are those that touch the canvases' pixels, the history,
\* the Remove and Undo buttons and the timers, with the brush tool active (the
\* default) and the left mouse button.  Each handler runs to its end before
\* the next event: process has no await inside, and what follows its await in
\* the timer callback runs before any other event is dispatched.

\* saveState dropping the oldest snapshot one save too early
SaveStateShiftEarly(a, isInitial) ==
    LET snap == GetImageData(a.mainCanvas, a.mainCanvas.width, a.mainCanvas.height)
        pushed == Append(a.history, snap)
        kept == IF Len(pushed) >= HistoryLimit THEN Tail(pushed) ELSE pushed
    IN  [a EXCEPT !.originalImageData = IF isInitial THEN snap ELSE @,
                  !.history = kept,
                  !.undoBtnDisabled = (Len(kept) = 0)]
\* lines 375-382: saveState(isInitial)
SaveState(a, isInitial) ==
    LET snap == GetImageData(a.mainCanvas, a.mainCanvas.width, a.mainCanvas.height)
        pushed == Append(a.history, snap)
        kept == IF Len(pushed) > HistoryLimit THEN Tail(pushed) ELSE pushed
    IN  [a EXCEPT !.originalImageData = IF isInitial THEN snap ELSE @,
                  !.history = kept,
                  !.undoBtnDisabled = (Len(kept) = 0)]

\* lines 204-257: renderImage(); setting a canvas's width resets its context,
\* the path included; Picture(k) is what drawImage leaves on the canvas
RenderImage(a) ==
    LET pic == Picture(a.image)
    IN  [a EXCEPT !.mainCanvas = pic,
                  !.maskCanvas = Blank(pic.width, pic.height),
                  !.path = -1]

\* lines 360-373: draw(e) with the pointer on pixel q; lineTo on an empty
\* path only sets the current point
Draw(a, q) ==
    [a EXCEPT !.maskCanvas = IF a.path = -1 THEN @ ELSE StrokeLine(@, a.path, q),
              !.path = q]

Pixels(canvas) == 0..(canvas.width * canvas.height - 1)
Event(name) ==
    /\ app.events < MaxEvents
    /\ account' = [account EXCEPT !.last = name]
    /\ UNCHANGED callVars

\* lines 182-198: img.onload of loadImageFile, for the picture k
Loaded(a, k) ==
    SaveState([RenderImage([a EXCEPT !.image = k])
                  EXCEPT !.removeBtnDisabled = FALSE,
                         !.history = <<>>], TRUE)
LoadImage ==
    \E k \in 1..Len(PictureDims) :
        /\ Event("load")
        /\ app' = [Loaded(app, k) EXCEPT !.events = @ + 1]
        /\ UNCHANGED isProcessing

\* lines 259-278: handleMouseDown, left button, on pixel q (the button goes
\* down only when it is up: every mouseup reaches the window's listener)
Pressed(a, q) == Draw(SaveState([a EXCEPT !.isDragging = TRUE], FALSE), q)
MouseDown ==
    \E q \in Pixels(app.maskCanvas) :
        /\ app.image # 0
        /\ ~app.isDragging
        /\ Event("mousedown")
        /\ app' = [Pressed(app, q) EXCEPT !.events = @ + 1]
        /\ UNCHANGED isProcessing

\* lines 280-304: handleMouseMove while dragging, to pixel q (when not
\* dragging it moves the cursor ring only)
MouseMove ==
    \E q \in Pixels(app.maskCanvas) :
        /\ app.image # 0
        /\ app.isDragging
        /\ Event("mousemove")
        /\ app' = [Draw(app, q) EXCEPT !.events = @ + 1]
        /\ UNCHANGED isProcessing

\* lines 306-313: handleMouseUp while dragging
Released(a) == [a EXCEPT !.isDragging = FALSE, !.path = -1]
MouseUp ==
    /\ app.isDragging
    /\ Event("mouseup")
    /\ app' = [Released(app) EXCEPT !.events = @ + 1]
    /\ UNCHANGED isProcessing

\* lines 411-438: runProcessor, on a click on Remove (a disabled button
\* gets no click)
RunProcessor ==
    /\ ~app.removeBtnDisabled
    /\ Event("remove")
    /\ app' = IF isProcessing THEN [app EXCEPT !.events = @ + 1]
              ELSE LET w == app.mainCanvas.width
                       h == app.mainCanvas.height
                   IN  [app EXCEPT !.removeBtnDisabled = TRUE,
                                   !.timers = Append(@,
                                       [width |-> w, height |-> h,
                                        imgData |-> GetImageData(app.mainCanvas, w, h),
                                        maskData |-> GetImageData(app.maskCanvas, w, h)]),
                                   !.events = @ + 1]
    /\ UNCHANGED isProcessing

\* what process(imgData, maskData) leaves in imgData
Filled(imgData, maskData) ==
    Bitmap(imgData.width, imgData.height,
           WhileLoop(Entry(imgData.data, maskData.data, imgData.width, imgData.height),
                     LoopFuel, imgData.width, imgData.height).data)

\* lines 423-437: the callback of the oldest timer
TimerFires ==
    /\ app.timers # <<>>
    /\ app.events < MaxEvents
    /\ \E t \in {Head(app.timers)} :
       \E result \in {Filled(t.imgData, t.maskData)} :
          /\ app' = [SaveState([app EXCEPT
                                   !.mainCanvas = PutImageData(@, result),
                                   !.maskCanvas = ClearRect(@, t.width, t.height)],
                               FALSE)
                        EXCEPT !.removeBtnDisabled = FALSE,
                               !.timers = Tail(app.timers),
                               !.events = @ + 1]
          /\ account' = [last |-> "fill", shown |-> app.mainCanvas,
                         painted |-> app.maskCanvas,
                         imgData |-> t.imgData, maskData |-> t.maskData]
    /\ isProcessing' = FALSE
    /\ UNCHANGED callVars

\* lines 384-390: undo(); on a click on Undo (a disabled button gets no click)
Undone(a) ==
    IF Len(a.history) > 0
    THEN LET left == SubSeq(a.history, 1, Len(a.history) - 1)
         IN  [a EXCEPT
                 !.mainCanvas = PutImageData(@, a.history[Len(a.history)]),
                 !.history = left,
                 !.undoBtnDisabled = (Len(left) = 0)]
    ELSE a
Undo ==
    /\ ~app.undoBtnDisabled
    /\ app.events < MaxEvents
    /\ account' = [account EXCEPT
                      !.last = IF account.last = "fill" THEN "undoFill" ELSE "undo"]
    /\ app' = [Undone(app) EXCEPT !.events = @ + 1]
    /\ UNCHANGED <<isProcessing, callVars>>

AppInit ==
    /\ width = 1 /\ height = 1 /\ maskWidth = 1 /\ maskHeight = 1
    /\ data = Blank(1, 1).data
    /\ mask = Blank(1, 1).data
    /\ Fresh

AppNext ==
    \/ LoadImage
    \/ MouseDown
    \/ MouseMove
    \/ MouseUp
    \/ RunProcessor
    \/ TimerFires
    \/ Undo

AppSpec == AppInit /\ [][AppNext]_vars

\* ---- late in a session ------------------------------------------------------
\* the App after n clicks on pixel 0 of the canvas (a press and a release
\* each; a press alone paints nothing: lineTo on an empty path)
RECURSIVE Clicked(_, _)
Clicked(a, n) == IF n = 0 THEN a ELSE Clicked(Released(Pressed(a, 0)), n - 1)

\* the App as the page serves it, or after a load and MaxClicks - 1 or
\* MaxClicks clicks
HistoryInit ==
    /\ width = 1 /\ height = 1 /\ maskWidth = 1 /\ maskHeight = 1
    /\ data = Blank(1, 1).data
    /\ mask = Blank(1, 1).data
    /\ \/ app = AppStart
       \/ \E k \in 1..Len(PictureDims), n \in (MaxClicks - 1)..MaxClicks :
              app = Clicked(Loaded(AppStart, k), n)
    /\ account = NoAccount
    /\ FreshProcessor

HistorySpec == HistoryInit /\ [][AppNext]_vars

TypeOK ==
    /\ remaining \in 0..Len(damagedPixels)
    /\ maxIterations \in -1..SafetyCap
    /\ passes = Len(history)
    /\ Len(data) = 4 * width * height
    /\ Len(mask) = 4 * maskWidth * maskHeight
    /\ \A j \in 1..Len(data) : data[j] \in 0..255

\* ---- properties -----------------------------------------------------------
PixelCount == width * height
Records == 1..Len(damagedPixels)
DimsMatch == maskWidth = width /\ maskHeight = height
\* pixel q (row-major number) was damaged when the last call started
Damaged0(q) == IsMasked(mask0, 4 * q + 3)
AllDamaged0 == \A q \in 0..(PixelCount - 1) : Damaged0(q)
Adjacent(p, q) ==
    /\ p # q
    /\ p.x - q.x \in -1..1
    /\ p.y - q.y \in -1..1

\* C1: a call whose mask has other dimensions than the pixel buffer fails
\* with InvalidInput and leaves the pixel buffer as it was.
C1_FailsFast ==
    (calls >= 1 /\ ~DimsMatch) => (outcome = "InvalidInput" /\ data = data0)

\* C2: every neighbour summed for a record solved in pass k was undamaged
\* when the call started or belongs to a record solved in a pass before k;
\* no record solved in pass k contributes to another record solved in pass k.
C2_PassSnapshot ==
    \A n \in Records :
        solvedAt[n] > 0 =>
            \A ni \in contrib[n] :
                \/ ~IsMasked(mask0, ni + 3)
                \/ \E m \in Records :
                      /\ damagedPixels[m].i = ni
                      /\ solvedAt[m] > 0
                      /\ solvedAt[m] < solvedAt[n]

C2_Witness ==
    /\ calls = 1
    /\ \E n, m \in Records :
          /\ Adjacent(damagedPixels[n], damagedPixels[m])
          /\ solvedAt[n] = 2
          /\ solvedAt[m] = 2
          /\ n < m
          /\ \E ni \in contrib[m] : IsMasked(mask0, ni + 3)

\* C3: a call leaves its loop after at most 500 passes.  It leaves it with
\* remaining = 0, or after a pass that solved no record, or after pass 500;
\* and it went on after every earlier pass, each of which solved a record and
\* left remaining above 0.
C3_StopsWithinCap ==
    calls >= 1 =>
        /\ exits[calls] # "none"
        /\ passes <= SafetyCap
        /\ Len(history) = passes
        /\ \/ remaining = 0
           \/ passes >= 1 /\ history[passes].solved = 0
           \/ passes = SafetyCap
        /\ passes >= 1 => Len(damagedPixels) > 0
        /\ \A p \in 1..(passes - 1) :
              history[p].solved > 0 /\ history[p].remaining > 0

C3_Witness ==
    /\ calls = 1
    /\ exits[1] = "cap"
    /\ passes = SafetyCap
    /\ remaining > 0
    /\ history[passes].solved > 0

\* C4: on a fully damaged image the call runs one pass that solves nothing,
\* leaves through the stuck test with remaining equal to the pixel count,
\* and changes neither buffer.
C4_FullyDamaged ==
    (calls >= 1 /\ AllDamaged0) =>
        /\ passes = 1
        /\ history[1].solved = 0
        /\ exits[calls] = "stuck"
        /\ remaining = PixelCount
        /\ data = data0
        /\ mask = mask0

C4_Witness ==
    /\ calls = 1
    /\ PixelCount >= 6
    /\ AllDamaged0
    /\ DimsMatch

\* ---- rectangular damage ---------------------------------------------------
MinOf(S) == CHOOSE a \in S : \A b \in S : a <= b
MaxOf(S) == 0 - MinOf({0 - a : a \in S})
\* the bounding rectangle of the records (recs is not empty)
BoundingBox(recs) ==
    LET xs == {recs[n].x : n \in 1..Len(recs)}
        ys == {recs[n].y : n \in 1..Len(recs)}
    IN  [x0 |-> MinOf(xs), y0 |-> MinOf(ys),
         w |-> MaxOf(xs) - MinOf(xs) + 1, h |-> MaxOf(ys) - MinOf(ys) + 1]
\* in the first call, the damaged pixels filled their bounding rectangle bb
BlockCase(bb) ==
    /\ calls = 1
    /\ DimsMatch
    /\ Len(damagedPixels) = bb.w * bb.h
InnerCols(bb) == {bb.x0 + (bb.w - 1) \div 2, bb.x0 + bb.w \div 2}

\* C5 as stated: no pixel of the innermost column of a filled rectangular
\* block of width w (any height) is solved before pass ceil(w/2).
C5_InnermostAfterHalfWidth ==
    damagedPixels # <<>> =>
        \A bb \in {BoundingBox(damagedPixels)} :
            BlockCase(bb) =>
                \A n \in Records :
                    (damagedPixels[n].x \in InnerCols(bb) /\ solvedAt[n] > 0)
                        => solvedAt[n] >= CeilHalf(bb.w)

\* C5 amended: a pixel of the innermost column of a filled block of width w
\* and height h, in row j of the block counted from the nearer horizontal
\* edge (j = 1 on the edge row), is not solved before pass min(ceil(w/2), j).
C5_InnermostAfterDepth ==
    damagedPixels # <<>> =>
        \A bb \in {BoundingBox(damagedPixels)} :
            BlockCase(bb) =>
                \A n \in Records :
                    (damagedPixels[n].x \in InnerCols(bb) /\ solvedAt[n] > 0)
                        => solvedAt[n] >=
                              Min(CeilHalf(bb.w),
                                  Min(damagedPixels[n].y - bb.y0 + 1,
                                      bb.y0 + bb.h - damagedPixels[n].y))

C5_Witness ==
    /\ remaining = 0
    /\ damagedPixels # <<>>
    /\ \E bb \in {BoundingBox(damagedPixels)} :
          /\ BlockCase(bb)
          /\ bb.w = 3
          /\ bb.h = 3
          /\ \E n \in Records :
                damagedPixels[n].x \in InnerCols(bb) /\ solvedAt[n] = 2

\* C6 as stated: a second call leaves both buffers as the first call left
\* them.
C6_TwiceIsOnce ==
    calls >= 2 => (data = data0 /\ mask = mask0)

\* C6 amended: a call that follows a call which did not stop on the pass cap
\* changes neither buffer; a call that left with remaining = 0 leaves no
\* damaged pixel in the mask, and the call after it scans no record and runs
\* no pass.
C6_TwiceIsOnceUnlessCapped ==
    /\ (calls >= 1 /\ exits[calls] = "resolved") =>
          \A q \in 0..(PixelCount - 1) : ~IsMasked(mask, 4 * q + 3)
    /\ (calls >= 2 /\ exits[calls - 1] # "cap") =>
          /\ data = data0
          /\ mask = mask0
          /\ exits[calls - 1] = "resolved" => (passes = 0 /\ damagedPixels = <<>>)

C6_Witness ==
    /\ calls = 2
    /\ exits = <<"resolved", "resolved">>
    /\ \E q \in 0..(PixelCount - 1) :
          /\ 4 * q + 3 < Len(mask)
          /\ Byte(mask, 4 * q) > 0
          /\ Byte(mask, 4 * q + 3) = 0

\* C7: a call writes the pixel buffer only at pixels damaged when it started
\* (a written pixel belongs to a solved record and has alpha 255), and writes
\* the mask only by storing 0 in the alpha of solved records.
C7_Frame ==
    calls >= 1 =>
        \A recIdx \in {{damagedPixels[n].i : n \in Records}} :
        \A solvedIdx \in {{damagedPixels[n].i : n \in {m \in Records : damagedPixels[m].solved}}} :
            /\ Len(data) = Len(data0)
            /\ Len(mask) = Len(mask0)
            /\ \A j \in 0..(Len(data) - 1) :
                  Byte(data, j) # Byte(data0, j) =>
                      /\ Damaged0(j \div 4)
                      /\ 4 * (j \div 4) \in recIdx
                      /\ 4 * (j \div 4) \in solvedIdx
                      /\ Byte(data, 4 * (j \div 4) + 3) = Opaque
            /\ \A j \in 0..(Len(mask) - 1) :
                  Byte(mask, j) # Byte(mask0, j) =>
                      /\ j % 4 = 3
                      /\ Byte(mask, j) = 0
                      /\ (j - 3) \in solvedIdx

C7_Witness ==
    /\ calls = 1
    /\ remaining = 0
    /\ passes >= 2
    /\ \E q \in 0..(PixelCount - 1) : ~Damaged0(q)
    /\ \E j \in 0..(Len(data) - 1) :
          j % 4 = 3 /\ Byte(data0, j) # Opaque /\ Byte(data, j) = Opaque

\* ---- single damaged pixels --------------------------------------------------
OnlyDamaged0(q0) ==
    /\ calls = 1
    /\ DimsMatch
    /\ \A q \in 0..(PixelCount - 1) : Damaged0(q) <=> q = q0
CentreCase == width = 3 /\ height = 3 /\ OnlyDamaged0(4)
RingSum(c) == SumAt(data0, {0, 4, 8, 12, 20, 24, 28, 32}, c)
CornerCase == width >= 2 /\ height >= 2 /\ OnlyDamaged0(0)
CornerNbs == {4, 4 * width, 4 * width + 4}
CornerSum(c) == SumAt(data0, CornerNbs, c)
\* v is sum / count rounded to the nearest integer, a tie going to the even one
NearestEven(v, sum, count) ==
    LET d == IF count * v >= sum THEN count * v - sum ELSE sum - count * v
    IN  /\ 2 * d <= count
        /\ 2 * d = count => v % 2 = 0

\* C8 as stated: the centre of a 3x3 image gets the exact mean of the 8 others.
C8_CentreExactMean ==
    CentreCase =>
        /\ passes = 1
        /\ remaining = 0
        /\ Byte(data, 19) = 255
        /\ \A c \in 0..2 : 8 * Byte(data, 16 + c) = RingSum(c)

\* C8 amended: the centre of a 3x3 image is solved in one pass; each colour
\* channel gets the mean of the 8 others rounded to the nearest integer (a
\* tie to the even one), alpha gets 255 and remaining is 0.
C8_CentreRoundedMean ==
    CentreCase =>
        /\ passes = 1
        /\ remaining = 0
        /\ Byte(data, 19) = 255
        /\ \A c \in 0..2 : NearestEven(Byte(data, 16 + c), RingSum(c), 8)

C8_Witness ==
    /\ CentreCase
    /\ \E c \in 0..2 : RingSum(c) % 8 = 4
    /\ \E c \in 0..2 : RingSum(c) % 8 > 4

\* every neighbour summed for record n is an in-bounds 8-neighbour of it, and
\* there are at most 3, 5 or 8 of them for a corner, edge or interior pixel
NeighbourLimit(r) ==
    LET onX == r.x = 0 \/ r.x = width - 1
        onY == r.y = 0 \/ r.y = height - 1
    IN  IF onX /\ onY THEN 3 ELSE IF onX \/ onY THEN 5 ELSE 8
OnlyInBounds ==
    \A n \in Records :
        /\ \A ni \in contrib[n] :
              \E d \in Offsets :
                  LET nx == damagedPixels[n].x + d[1]
                      ny == damagedPixels[n].y + d[2]
                  IN  /\ 0 <= nx /\ nx < width
                      /\ 0 <= ny /\ ny < height
                      /\ ni = (ny * width + nx) * 4
        /\ Cardinality(contrib[n]) <= NeighbourLimit(damagedPixels[n])

\* C9 as stated: only in-bounds neighbours are summed, and a damaged top-left
\* pixel gets the exact mean of its right, below and diagonal neighbours.
C9_CornerExactMean ==
    /\ OnlyInBounds
    /\ CornerCase =>
          /\ contrib[1] = CornerNbs
          /\ \A c \in 0..2 : 3 * Byte(data, c) = CornerSum(c)

\* C9 amended: only in-bounds neighbours are summed (at most 3, 5, 8), and a
\* damaged top-left pixel gets the mean of exactly its right, below and
\* diagonal neighbours, rounded to the nearest integer.
C9_CornerRoundedMean ==
    /\ OnlyInBounds
    /\ CornerCase =>
          /\ contrib[1] = CornerNbs
          /\ \A c \in 0..2 : NearestEven(Byte(data, c), CornerSum(c), 3)

C9_Witness ==
    /\ CornerCase
    /\ width >= 3
    /\ remaining = 0
    /\ \E c \in 0..2 : CornerSum(c) % 3 # 0

\* C10: when a call ends with remaining > 0, every record still unsolved has
\* the four bytes it had when the call started and its mask alpha, unchanged,
\* is above zero.
C10_UnsolvedUntouched ==
    (calls >= 1 /\ remaining > 0) =>
        \A n \in Records :
            ~damagedPixels[n].solved =>
                /\ \A c \in 0..3 :
                      Byte(data, damagedPixels[n].i + c) = Byte(data0, damagedPixels[n].i + c)
                /\ Byte(mask, damagedPixels[n].i + 3) = Byte(mask0, damagedPixels[n].i + 3)
                /\ Byte(mask, damagedPixels[n].i + 3) > 0

C10_Witness ==
    /\ calls = 1
    /\ remaining > 0
    /\ exits[calls] = "stuck"
    /\ PixelCount >= 4
    /\ \E n \in Records :
          ~damagedPixels[n].solved /\ Byte(data0, damagedPixels[n].i + 3) # Opaque

\* ---- the records during a call ---------------------------------------------
\* the passes of the last call in which record n was solved (its colour and
\* its solved flag are written there and nowhere else)
SolvedIn(n) ==
    {p \in 1..passes : \E m \in 1..Len(history[p].who) : history[p].who[m] = n}
\* the records not yet solved when pass p had been committed
UnsolvedAfter(p) == {n \in Records : solvedAt[n] = 0 \/ solvedAt[n] > p}

\* C11: during a call a record is solved (flag set, colour written) in at most
\* one pass and once in that pass, its flag stays true and it is never solved
\* again in a later pass; a solved record's mask alpha is 0.
C11_SolvedOnce ==
    calls >= 1 =>
        /\ \A p \in 1..passes :
              \A a, b \in 1..Len(history[p].who) :
                  history[p].who[a] = history[p].who[b] => a = b
        /\ \A n \in Records :
              /\ Cardinality(SolvedIn(n)) <= 1
              /\ damagedPixels[n].solved <=> SolvedIn(n) # {}
              /\ damagedPixels[n].solved =>
                    /\ SolvedIn(n) = {solvedAt[n]}
                    /\ Byte(mask, damagedPixels[n].i + 3) = 0
                    /\ Byte(data, damagedPixels[n].i + 3) = Opaque

C11_Witness ==
    /\ calls = 1
    /\ passes >= 3
    /\ remaining = 0
    /\ \E n, m \in Records : solvedAt[n] = 1 /\ solvedAt[m] = 3

\* C12: remaining is the number of records with solved = false, after every
\* pass and at the end; it is never negative; every pass takes from it exactly
\* the number of records the pass solved.
C12_RemainingCountsUnsolved ==
    calls >= 1 =>
        /\ remaining >= 0
        /\ remaining = Cardinality({n \in Records : ~damagedPixels[n].solved})
        /\ \A p \in 1..passes :
              LET before == IF p = 1 THEN Len(damagedPixels)
                            ELSE history[p - 1].remaining
              IN  /\ history[p].remaining >= 0
                  /\ history[p].solved = Len(history[p].who)
                  /\ history[p].remaining = before - history[p].solved
                  /\ history[p].solved > 0 => history[p].remaining < before
                  /\ history[p].remaining = Cardinality(UnsolvedAfter(p))

C12_Witness ==
    /\ calls = 1
    /\ passes >= 2
    /\ history[1].solved >= 2
    /\ history[2].solved >= 2
    /\ history[2].remaining > 0

\* ---- the order of the records inside a pass -------------------------------
\* the for-k loop visiting the records in the order given: order[lo], ...,
\* order[hi], each on the state the previous one left
RECURSIVE SolveInOrder(_, _, _, _, _, _)
SolveInOrder(st, order, lo, hi, w, h) ==
    IF lo > Len(st.recs) \/ lo > hi THEN st
    ELSE IF lo = hi THEN SolveRecord(st, order[lo], w, h)
    ELSE LET mid == (lo + hi) \div 2
             left == SolveInOrder(st, order, lo, mid, w, h)
         IN  SolveInOrder(left, order, mid + 1, hi, w, h)

\* a pass that visits the records in the order given, then commits
PassInOrder(st, order, w, h) ==
    LET swept == SolveInOrder([st EXCEPT !.solved = <<>>, !.passes = @ + 1],
                              order, 1, Len(st.recs), w, h)
    IN  [swept EXCEPT !.mask = ClearSolved(swept.mask, swept.recs, swept.solved),
                      !.remaining = swept.remaining - Len(swept.solved)]

\* a pass in which every record is worked on alone, on the buffers as the
\* pass found them, and the stores of all of them are put together afterwards
PassInParallel(st, w, h) ==
    LET start == [st EXCEPT !.solved = <<>>, !.passes = @ + 1]
        alone == [n \in 1..Len(st.recs) |-> SolveRecord(start, n, w, h)]
        done == {n \in 1..Len(st.recs) : Len(alone[n].solved) = 1}
        owner(j) == {n \in done : st.recs[n].i = 4 * ((j - 1) \div 4)}
        solved == [n \in 1..Cardinality(done) |->
                      CHOOSE m \in done :
                          Cardinality({a \in done : a < m}) = n - 1]
    IN  [data |-> [j \in 1..Len(st.data) |->
                      IF owner(j) = {} THEN st.data[j]
                      ELSE alone[CHOOSE n \in owner(j) : TRUE].data[j]],
         mask |-> ClearSolved(st.mask, st.recs, solved),
         remaining |-> st.remaining - Cardinality(done)]

\* the state in which pass p + 1 of a call starts
RECURSIVE AfterPasses(_, _, _, _)
AfterPasses(st, p, w, h) ==
    IF p = 0 THEN st ELSE RunPass(AfterPasses(st, p - 1, w, h), w, h)

\* the orders tried for n records: every permutation of up to MaxPermuted
\* records; last to first, and the second half before the first, of more
Orders(n) ==
    IF n <= MaxPermuted THEN Permutations(1..n)
    ELSE {[k \in 1..n |-> n + 1 - k],
          [k \in 1..n |-> ((k - 1 + n \div 2) % n) + 1]}

SameBuffers(a, b) ==
    a.data = b.data /\ a.mask = b.mask /\ a.remaining = b.remaining

\* C13: every pass of a call on an image of at most MaxOrderPixels pixels
\* gives the same pixel buffer, mask buffer and
\* remaining whether its records are visited first to last (as the code
\* does), in another order, or all at once on the buffers the pass started
\* with.
C13_OrderIndependent ==
    (calls = 1 /\ PixelCount <= MaxOrderPixels) =>
        \A p \in 0..(passes - 1) :
            \A st \in {AfterPasses(Entry(data0, mask0, width, height),
                                   p, width, height)} :
            \A ref \in {RunPass(st, width, height)} :
                /\ p = passes - 1 =>
                      (ref.data = data /\ ref.mask = mask /\ ref.remaining = remaining)
                /\ SameBuffers(PassInParallel(st, width, height), ref)
                /\ \A order \in Orders(Len(st.recs)) :
                      SameBuffers(PassInOrder(st, order, width, height), ref)

C13_Witness ==
    /\ calls = 1
    /\ PixelCount <= MaxOrderPixels
    /\ passes >= 2
    /\ Len(damagedPixels) = MaxPermuted
    /\ history[1].solved >= 2
    /\ history[2].solved >= 1

\* ---- rings ------------------------------------------------------------------
Abs(a) == IF a < 0 THEN 0 - a ELSE a
\* the 8-neighbour distance between record r and pixel q
Chebyshev(r, q) == Max(Abs(r.x - (q % width)), Abs(r.y - (q \div width)))
Undamaged0 == {q \in 0..(PixelCount - 1) : ~Damaged0(q)}
Never == SafetyCap + 1
\* per pixel, the number of passes of the last call after which its mask
\* alpha was 0: 0 if it was undamaged at the start, Never if it stayed damaged
ValidAfter ==
    [q \in 0..(PixelCount - 1) |->
        IF ~Damaged0(q) THEN 0
        ELSE LET own == {n \in Records : damagedPixels[n].i = 4 * q}
             IN  IF \E n \in own : solvedAt[n] > 0
                 THEN solvedAt[CHOOSE n \in own : TRUE]
                 ELSE Never]

\* C14: a record is solved in the first pass at whose start one of its
\* in-bounds 8-neighbours has mask alpha 0, so in pass k if and only if its
\* 8-neighbour distance to the nearest pixel undamaged at the start is k, for
\* k up to the pass cap; a record further away, or with no undamaged pixel in
\* the image, is not solved.
C14_RingPerPass ==
    calls >= 1 =>
        \A validAfter \in {ValidAfter} :
        \A n \in Records :
            LET r == damagedPixels[n]
                nbs == {validAfter[q] : q \in {a \in 0..(PixelCount - 1) : Chebyshev(r, a) = 1}}
                dist == {Chebyshev(r, q) : q \in Undamaged0}
            IN  /\ solvedAt[n] = IF nbs # {} /\ MinOf(nbs \cup {Never}) < passes
                                 THEN MinOf(nbs) + 1 ELSE 0
                /\ solvedAt[n] = IF dist # {} /\ MinOf(dist \cup {Never}) <= SafetyCap
                                 THEN MinOf(dist) ELSE 0

C14_Witness ==
    /\ calls = 1
    /\ DimsMatch
    /\ passes = 3
    /\ remaining = 0
    /\ \E n, m \in Records :
          /\ solvedAt[n] = 3
          /\ solvedAt[m] = 2
          /\ damagedPixels[m].x # damagedPixels[n].x
          /\ damagedPixels[m].y # damagedPixels[n].y
          /\ m \in {a \in Records : Adjacent(damagedPixels[a], damagedPixels[n])}

\* ---- the ways out of the loop -------------------------------------------------
\* the pixels next to record r (the image's bounds are those of 0..PixelCount-1
\* split in rows of width pixels)
NeighboursOf(r) == {q \in 0..(PixelCount - 1) : Chebyshev(r, q) = 1}

\* C15: when a call leaves through the stuck test, every in-bounds 8-neighbour
\* of every record still unsolved is damaged in the mask as the call leaves it.
C15_StuckMeansEnclosed ==
    (calls >= 1 /\ exits[calls] = "stuck") =>
        /\ remaining > 0
        /\ history[passes].solved = 0
        /\ \A n \in Records :
              ~damagedPixels[n].solved =>
                  \A q \in NeighboursOf(damagedPixels[n]) :
                      /\ 4 * q + 3 < Len(mask)
                      /\ Byte(mask, 4 * q + 3) > 0

C15_Witness ==
    /\ calls = 2
    /\ exits = <<"stuck", "stuck">>
    /\ width >= 2
    /\ height >= 2
    /\ remaining = PixelCount

\* C16: when some pixel is undamaged at the start of a call and no damaged
\* pixel is further than the pass cap from an undamaged one, the call ends
\* with remaining = 0 and no pixel of the image damaged in the mask; a call
\* leaves through the stuck test only after its first pass and only when the
\* whole image was damaged.
C16_ResolvesUnlessAllDamaged ==
    calls >= 1 =>
        /\ (/\ Undamaged0 # {}
            /\ \A n \in Records :
                  \E q \in Undamaged0 : Chebyshev(damagedPixels[n], q) <= SafetyCap)
              => /\ remaining = 0
                 /\ exits[calls] = "resolved"
                 /\ \A q \in 0..(PixelCount - 1) : ~IsMasked(mask, 4 * q + 3)
        /\ exits[calls] = "stuck" => (passes = 1 /\ AllDamaged0)

C16_Witness ==
    /\ calls = 1
    /\ DimsMatch
    /\ remaining = 0
    /\ passes >= 3
    /\ \E n, m \in Records :
          /\ damagedPixels[n].x = 0 /\ damagedPixels[n].y = 0
          /\ damagedPixels[m].x = width - 1 /\ damagedPixels[m].y = height - 1
          /\ ~Adjacent(damagedPixels[n], damagedPixels[m])

\* C17: the scan makes one record per pixel whose mask alpha is above 0 and no
\* other, in row-major order, each with the pixel's x, y and byte index and
\* solved = false until a pass solves it; with no such pixel the record list
\* is empty, the call runs no pass and leaves both buffers as they were.
C17_ScanRowMajor ==
    calls >= 1 =>
        /\ Len(damagedPixels) = Cardinality({q \in 0..(PixelCount - 1) : Damaged0(q)})
        /\ \A n \in Records :
              LET r == damagedPixels[n]
              IN  /\ r.x \in 0..(width - 1)
                  /\ r.y \in 0..(height - 1)
                  /\ r.i = 4 * (r.y * width + r.x)
                  /\ Damaged0(r.y * width + r.x)
                  /\ n > 1 => damagedPixels[n - 1].i < r.i
                  /\ r.solved <=> solvedAt[n] > 0
        /\ (\A q \in 0..(PixelCount - 1) : ~Damaged0(q)) =>
              /\ damagedPixels = <<>>
              /\ passes = 0
              /\ exits[calls] = "resolved"
              /\ data = data0
              /\ mask = mask0

C17_Witness ==
    /\ calls = 1
    /\ PixelCount >= 6
    /\ damagedPixels = <<>>
    /\ data = data0

\* ---- the app's removals ---------------------------------------------------------
\* C18: at most one removal is pending at any time.
C18_OneRemovalAtATime == Len(app.timers) <= 1

\* C19: when a timer callback has run, the main canvas holds the fill of what
\* the main canvas and the mask canvas held when it ran, and every pixel
\* painted on the mask that it cleared was painted in the mask it filled.
C19_FillMatchesScreen ==
    account.last = "fill" =>
        /\ app.mainCanvas = Filled(account.shown, account.painted)
        /\ \A q \in Pixels(account.painted) :
              LET x == q % account.painted.width
                  y == q \div account.painted.width
              IN  (/\ PixelByte(account.painted, x, y, 3) > 0
                   /\ PixelByte(app.maskCanvas, x, y, 3) = 0)
                      => PixelByte(account.maskData, x, y, 3) > 0

Saving == {"load", "mousedown", "fill"}
Undoing == {"undo", "undoFill"}
\* what getImageData gives for the whole main canvas of a
Snapshot(a) == GetImageData(a.mainCanvas, a.mainCanvas.width, a.mainCanvas.height)
\* b is a with the snapshot of b's canvas saved: appended, and the oldest
\* snapshot dropped exactly when a held HistoryLimit snapshots already
SavedOnto(a, b) ==
    b.history = IF Len(a.history) = HistoryLimit
                THEN Append(Tail(a.history), Snapshot(b))
                ELSE Append(a.history, Snapshot(b))
HistoryStep ==
    /\ account'.last = "load" => app'.history = <<Snapshot(app')>>
    /\ account'.last \in Saving \ {"load"} => SavedOnto(app, app')
    /\ account'.last \in Undoing =>
          IF Len(app.history) = 0
          THEN app' = [app EXCEPT !.events = @ + 1]
          ELSE /\ app'.history = SubSeq(app.history, 1, Len(app.history) - 1)
               /\ app'.mainCanvas.data = app.history[Len(app.history)].data
    /\ account'.last \notin Saving \cup Undoing =>
          /\ app'.history = app.history
          /\ app'.undoBtnDisabled = app.undoBtnDisabled

\* C21: the undo history never holds more than 20 snapshots; a saveState
\* appends the snapshot of the canvas and drops the oldest snapshot exactly
\* when 20 were held (a load starts the history anew with one snapshot); undo
\* applied to an App with an empty history gives the same App; and right after
\* an event that ran saveState or undo the Undo button is disabled exactly
\* when the history is empty.
C21_HistoryBounded ==
    /\ [](Len(app.history) <= HistoryLimit)
    /\ [](Len(app.history) = 0 => Undone(app) = app)
    /\ [](account.last \in Saving \cup Undoing =>
             (app.undoBtnDisabled <=> Len(app.history) = 0))
    /\ [][HistoryStep]_vars

\* four events into a session that began with 19 or 20 snapshots held, a
\* removal has changed the canvas: its snapshot and that of the press before
\* it were saved, and the history holds 20
C21_Witness ==
    /\ app.events = 4
    /\ account.last = "fill"
    /\ Len(app.history) = HistoryLimit
    /\ app.history[HistoryLimit] # app.history[HistoryLimit - 1]
====
